---- MODULE Spec2Model ----
(***************************************************************************)
(* Model of src/components/SolarSystem.js: the effect that builds the      *)
(* three.js scene, the animate() loop driven by requestAnimationFrame, the *)
(* window resize listener and the effect cleanup.                          *)
(*                                                                         *)
(* Numbers.  Date.now() is an integer number of milliseconds.  Angles are  *)
(* kept exact:                                                             *)
(*   - self-rotation (rotation.y) in hundredths of a radian, so that       *)
(*     rotationSpeed = 0.01 * (i + 1) is the integer i + 1;                *)
(*   - the orbital angle time * orbitSpeed = Date.now() * 0.0005 * 0.02 /  *)
(*     (i + 1) in units of 1e-5 / OrbitScale radians, so that it is the    *)
(*     integer Date.now() * OrbitScale / (i + 1).                          *)
(* distance * cos(angle) and distance * sin(angle) are kept symbolically;  *)
(* since the angle is a rational number of radians, cos(angle) = 1 and     *)
(* sin(angle) = 0 only at angle = 0, and two positions on one orbit are    *)
(* equal only for equal angles.  Floating-point rounding is not modelled.  *)
(* The camera is kept in spherical coordinates about the controls' target, *)
(* the origin: OrbitControls.update() reads and writes it that way.  Its    *)
(* angles are in milliradians, rounded towards zero.  Of the pointer input *)
(* only the vertical part of a rotate drag is modelled; zoom, pan and the  *)
(* azimuth leave the polar angle alone.                                    *)
(***************************************************************************)
EXTENDS Integers, Sequences, FiniteSets, TLC

(* ---------------------------- bounds ----------------------------------- *)
MaxMounts == 2      \* effect runs (component instances) in one behaviour
MaxFrames == 3      \* frame callbacks fire while fewer animate() calls than this have run
MaxNow == 2         \* last value of the clock
MaxDrags == 1       \* pointer drags in one behaviour

(* ---------------------------- constants -------------------------------- *)
StartNow == 1
OrbitScale == 840      \* least common multiple of the divisors i + 1 of orbitSpeed
TimeDivisor == 2000    \* time = Date.now() * 0.0005 = Date.now() / 2000
RingedBody == "Saturn"
HalfPi == 1571         \* Math.PI / 2 in milliradians
InitialPolar == 1249   \* polar angle of camera.position.set(0, 50, 150): atan(150 / 50)
DampingPercent == 25   \* controls.dampingFactor = 0.25

\* controls.maxPolarAngle = Math.PI / 2, without the assignment (Math.PI)
MaxPolarAngle_Pi == 2 * HalfPi

\* controls.maxPolarAngle = Math.PI / 2
MaxPolarAngle == HalfPi

\* OrbitControls.minPolarAngle, never assigned
MinPolarAngle == 0

\* angles of rotateUp a vertical drag may ask for: 2 * PI * dy / clientHeight
DragAngles == {-2000, 2000}

planetTextures ==
  <<"mercury", "venus", "earth", "mars", "jupiter", "saturn", "uranys", "neptune">>

planetDistances == <<20, 30, 40, 50, 60, 70, 80, 100>>

planetNames ==
  <<"Mercury", "Venus", "Earth", "Mars", "Jupiter", "Saturn", "Uranus", "Neptune">>

\* name lists of the length of planetTextures, for the registry specification
Registries ==
  { planetNames,
    <<"Mercury", "Venus", "Earth", "Mars", "Jupiter", "Titan", "Uranus", "Neptune">> }

\* viewport sizes the host may report (innerWidth, innerHeight)
Sizes == { <<800, 600>>, <<1920, 1080>> }

PixelRatios == {2}

Instances == 1..MaxMounts

VARIABLES
  now,        \* Date.now()
  window,     \* [innerWidth, innerHeight, devicePixelRatio]
  names,      \* the planetNames array of the build
  phase,      \* host lifecycle of each effect run: "absent", "mounted", "unmounted"
  mountRef,   \* mountRef.current of each instance: "div" or "null"
  container,  \* children of the div: sequence of canvases (renderer ids)
  inst,       \* the objects each effect run closes over
  loop,       \* per instance: clock value at the first animate() and at the last one,
              \* animate() calls, frames drawn, the steps of the last animate(),
              \* whether a render met a lost context, whether its resize listener has run
  context,    \* the WebGL context of each renderer: "ok" or "lost"
  rafQueue,   \* callbacks registered with requestAnimationFrame, in order
  listeners,  \* 'resize' listeners of window, in order of registration
  errors      \* exceptions thrown by the cleanup: set of <<instance, kind>>

vars == <<now, window, names, phase, mountRef, container, inst, loop, context,
          rafQueue, listeners, errors>>

(* ---------------------------- arithmetic ------------------------------- *)
RECURSIVE Gcd(_, _)
Gcd(a, b) == IF b = 0 THEN a ELSE Gcd(b, a % b)

\* the quotient w / h, as a fraction in lowest terms
Ratio(w, h) == <<w \div Gcd(w, h), h \div Gcd(w, h)>>

Const(n) == [amp |-> n, fn |-> "const", ang |-> 0]

TimesCos(d, a) == IF a = 0 THEN Const(d) ELSE [amp |-> d, fn |-> "cos", ang |-> a]

TimesSin(d, a) == IF a = 0 THEN Const(0) ELSE [amp |-> d, fn |-> "sin", ang |-> a]

\* time * planet.orbitSpeed, with time = Date.now() * 0.0005
OrbitAngle(t, orbitSpeed) == (t * OrbitScale) \div orbitSpeed

\* Array.prototype.indexOf: the first index (from 0), or -1
IndexOf(arr, x) ==
  IF \E k \in 1..Len(arr) : arr[k] = x
  THEN (CHOOSE k \in 1..Len(arr) : arr[k] = x /\ \A j \in 1..(k - 1) : arr[j] # x) - 1
  ELSE -1

(* ---------------------------- scene build ------------------------------ *)
\* new SpriteText(name, 1.5, 'white') placed at (0, 3, 0)
nameText(name) ==
  [kind |-> "label", text |-> name, position |-> <<0, 3, 0>>,
   rotationX |-> 0, inner |-> 0, outer |-> 0]

\* ring geometry in tenths; rotation.x in quarter turns (Math.PI / 2)
createSaturnRings(size) ==
  [kind |-> "ring", text |-> "", position |-> <<0, 0, 0>>,
   rotationX |-> 1, inner |-> size * 13, outer |-> size * 15]

\* 64 samples (cos * radius, 0, sin * radius) and the closing point, all in
\* the local plane y = 0 ("xz"); rotation.x in quarter turns
createOrbit(radius) ==
  [radius |-> radius, points |-> 64 + 1, plane |-> "xz", rotationX |-> 1]

\* the plane through the origin that Object3D.rotation.x, in quarter turns,
\* turns the local plane into: (x, y, z) goes to (x, -z, y) at a quarter turn
rotateX(plane, quarterTurns) ==
  IF quarterTurns % 2 = 0 THEN plane
  ELSE IF plane = "xz" THEN "xy"
  ELSE IF plane = "xy" THEN "xz"
  ELSE plane

\* what planetTextures.forEach pushes for index i = k - 1
planetEntry(nms, k) ==
  [mesh |-> [position |-> [x |-> Const(planetDistances[k]), y |-> Const(0), z |-> Const(0)],
             rotationY |-> 0,
             texture |-> planetTextures[k],
             children |-> << nameText(nms[k]) >>],
   distance |-> planetDistances[k],
   rotationSpeed |-> k,
   orbitSpeed |-> k]

buildPlanets(nms) == [k \in 1..Len(planetTextures) |-> planetEntry(nms, k)]

\* addSaturnRing with the index of indexOf taken as counted from 1
addSaturnRing_OffByOne(planets, nms) ==
  LET saturnIndex == IndexOf(nms, RingedBody) IN
  IF saturnIndex # -1 /\ saturnIndex \in DOMAIN planets
  THEN [planets EXCEPT ![saturnIndex].mesh.children = Append(@, createSaturnRings(2))]
  ELSE planets

\* planets[saturnIndex].mesh.add(saturnRing) when saturnIndex !== -1
addSaturnRing(planets, nms) ==
  LET saturnIndex == IndexOf(nms, RingedBody) IN
  IF saturnIndex # -1
  THEN [planets EXCEPT ![saturnIndex + 1].mesh.children = Append(@, createSaturnRings(2))]
  ELSE planets

\* sceneChildren with one orbit guide for the whole scene
sceneChildren_OneOrbit ==
  << <<"AmbientLight", 0>>, <<"DirectionalLight", 0>>, <<"sun", 0>> >>
  \o [k \in 1..Len(planetTextures) |-> <<"planet", k>>]
  \o << <<"orbit", 1>> >>

\* scene.add calls, in order
sceneChildren ==
  << <<"AmbientLight", 0>>, <<"DirectionalLight", 0>>, <<"sun", 0>> >>
  \o [k \in 1..Len(planetTextures) |-> <<"planet", k>>]
  \o [k \in 1..Len(planetDistances) |-> <<"orbit", k>>]

\* WebGLRenderer.setSize
setSize(renderer, w, h) ==
  [renderer EXCEPT !.width = w, !.height = h,
                   !.canvasWidth = w * renderer.pixelRatio,
                   !.canvasHeight = h * renderer.pixelRatio]

\* WebGLRenderer.setPixelRatio
setPixelRatio(renderer, r) ==
  setSize([renderer EXCEPT !.pixelRatio = r], renderer.width, renderer.height)

\* the objects created by the effect before the first animate()
build(nms, win) ==
  [scene |-> sceneChildren,
   camera |-> [aspect |-> Ratio(win.innerWidth, win.innerHeight),
               position |-> [radiusSq |-> 0 * 0 + 50 * 50 + 150 * 150,
                             theta |-> 0, phi |-> InitialPolar]],
   controls |-> [sphericalDeltaPhi |-> 0],
   renderer |-> setPixelRatio(
                  setSize([width |-> 0, height |-> 0, pixelRatio |-> 1,
                           canvasWidth |-> 0, canvasHeight |-> 0],
                          win.innerWidth, win.innerHeight),
                  win.devicePixelRatio),
   sun |-> [rotationY |-> 0, position |-> <<0, 0, 0>>],
   planets |-> addSaturnRing(buildPlanets(nms), nms),
   orbits |-> [k \in 1..Len(planetDistances) |-> createOrbit(planetDistances[k])]]

NoInstance == [scene |-> << >>]

(* ---------------------------- animate ---------------------------------- *)
\* updatePlanet turning the body backwards
updatePlanet_Backwards(planet, time) ==
  [planet EXCEPT
     !.mesh.position.x = TimesCos(planet.distance, OrbitAngle(time, planet.orbitSpeed)),
     !.mesh.position.z = TimesSin(planet.distance, OrbitAngle(time, planet.orbitSpeed)),
     !.mesh.rotationY = @ - planet.rotationSpeed]

\* updatePlanet writing the sine to y as well
updatePlanet_WritesY(planet, time) ==
  [planet EXCEPT
     !.mesh.position.x = TimesCos(planet.distance, OrbitAngle(time, planet.orbitSpeed)),
     !.mesh.position.y = TimesSin(planet.distance, OrbitAngle(time, planet.orbitSpeed)),
     !.mesh.position.z = TimesSin(planet.distance, OrbitAngle(time, planet.orbitSpeed)),
     !.mesh.rotationY = @ + planet.rotationSpeed]

\* the body of planets.forEach in animate()
updatePlanet(planet, time) ==
  [planet EXCEPT
     !.mesh.position.x = TimesCos(planet.distance, OrbitAngle(time, planet.orbitSpeed)),
     !.mesh.position.z = TimesSin(planet.distance, OrbitAngle(time, planet.orbitSpeed)),
     !.mesh.rotationY = @ + planet.rotationSpeed]

\* x * percent / 100, rounded towards zero
Scaled(x, percent) ==
  IF x >= 0 THEN (x * percent) \div 100 ELSE 0 - (((0 - x) * percent) \div 100)

\* Math.max(lo, Math.min(hi, x))
Clamp(lo, hi, x) == IF x > hi THEN (IF hi < lo THEN lo ELSE hi) ELSE IF x < lo THEN lo ELSE x

\* OrbitControls.update() with enableDamping: the damped share of the pending
\* rotation is added, the polar angle is restricted to [minPolarAngle,
\* maxPolarAngle] and made safe (within [0, PI]), the rest of the rotation decays
controlsUpdate(o) ==
  [o EXCEPT
     !.camera.position.phi =
        Clamp(0, 2 * HalfPi,
              Clamp(MinPolarAngle, MaxPolarAngle,
                    @ + Scaled(o.controls.sphericalDeltaPhi, DampingPercent))),
     !.controls.sphericalDeltaPhi = Scaled(@, 100 - DampingPercent)]

\* OrbitControls' pointermove while rotating: rotateUp(angle), then update()
handleMouseMoveRotate(o, angle) ==
  controlsUpdate([o EXCEPT !.controls.sphericalDeltaPhi = @ - angle])

\* animateObjects adding a scene object on every call
animateObjects_Allocates(o, time) ==
  controlsUpdate(
    [o EXCEPT !.sun.rotationY = @ + 1,
              !.planets = [k \in DOMAIN o.planets |-> updatePlanet(o.planets[k], time)],
              !.scene = Append(@, <<"orbit", 0>>)])

\* the writes of one animate() call to the objects of an instance
animateObjects(o, time) ==
  controlsUpdate(
    [o EXCEPT !.sun.rotationY = @ + 1,
              !.planets = [k \in DOMAIN o.planets |-> updatePlanet(o.planets[k], time)]])

\* the statements of animate() in the order they run: <<statement, body>>
animateSteps(o) ==
  << <<"requestAnimationFrame", 0>>, <<"sun.rotation", 0>>, <<"Date.now", 0>> >>
  \o [k \in 1..Len(o.planets) |-> <<"planet", k>>]
  \o << <<"controls.update", 0>>, <<"renderer.render", 0>> >>

\* renderer.render(scene, camera): the frames drawn so far, n, become n + 1;
\* WebGLRenderer.render returns without drawing while the context is lost
render(ctx, n) == IF ctx = "ok" THEN n + 1 ELSE n

\* requestAnimationFrame called at both ends of animate()
requestAnimationFrame_Twice(queue, i) == Append(Append(queue, i), i)

\* requestAnimationFrame(animate) of instance i: one more pending callback
requestAnimationFrame(queue, i) == Append(queue, i)

(* ---------------------------- resize ----------------------------------- *)
\* onResize with the quotient taken the wrong way round
onResize_Inverted(o, win) ==
  [o EXCEPT !.camera.aspect = Ratio(win.innerHeight, win.innerWidth),
            !.renderer = setSize(o.renderer, win.innerWidth, win.innerHeight)]

\* the 'resize' listener of one instance
onResize(o, win) ==
  [o EXCEPT !.camera.aspect = Ratio(win.innerWidth, win.innerHeight),
            !.renderer = setSize(o.renderer, win.innerWidth, win.innerHeight)]

(* ---------------------------- initial state ---------------------------- *)
InitCommon ==
  /\ now = StartNow
  /\ \E s \in Sizes, r \in PixelRatios :
       window = [innerWidth |-> s[1], innerHeight |-> s[2], devicePixelRatio |-> r]
  /\ phase = [i \in Instances |-> "absent"]
  /\ mountRef = [i \in Instances |-> "null"]
  /\ container = [i \in Instances |-> << >>]
  /\ inst = [i \in Instances |-> NoInstance]
  /\ loop = [i \in Instances |-> [start |-> 0, time |-> 0, frames |-> 0, rendered |-> 0, steps |-> << >>,
                                failed |-> FALSE, resized |-> FALSE, drags |-> 0]]
  /\ context = [i \in Instances |-> "ok"]
  /\ rafQueue = << >>
  /\ listeners = << >>
  /\ errors = {}

Init == InitCommon /\ names = planetNames

InitRegistry == InitCommon /\ names \in Registries

(* ---------------------------- actions ---------------------------------- *)
\* the host's clock moves on
AdvanceClock ==
  /\ now < MaxNow
  /\ now' \in (now + 1)..MaxNow
  /\ UNCHANGED <<window, names, phase, mountRef, container, inst, loop, context,
                 rafQueue, listeners, errors>>

\* The host commits instance i (attaching the ref) and runs the effect:
\* build, appendChild, the first animate(), addEventListener.
Mount(i) ==
  /\ phase[i] = "absent"
  /\ \A j \in 1..(i - 1) : phase[j] # "absent"
  /\ phase' = [phase EXCEPT ![i] = "mounted"]
  /\ mountRef' = [mountRef EXCEPT ![i] = "div"]
  /\ container' = [container EXCEPT ![i] = Append(@, i)]
  /\ inst' = [inst EXCEPT ![i] = animateObjects(build(names, window), now)]
  /\ loop' = [loop EXCEPT ![i] =
                [start |-> now, time |-> now, frames |-> 1,
                 rendered |-> render(context[i], 0),
                 steps |-> animateSteps(build(names, window)),
                 failed |-> context[i] = "lost", resized |-> FALSE, drags |-> 0]]
  /\ rafQueue' = requestAnimationFrame(rafQueue, i)
  /\ listeners' = Append(listeners, i)
  /\ UNCHANGED <<now, window, names, context, errors>>

RECURSIVE framesOf(_, _)
\* animate() calls of the instances 1..n so far
framesOf(lp, n) == IF n = 0 THEN 0 ELSE lp[n].frames + framesOf(lp, n - 1)

\* the host fires the oldest pending frame callback: one call of animate()
Tick ==
  /\ rafQueue # << >>
  /\ framesOf(loop, MaxMounts) < MaxFrames
  /\ LET i == Head(rafQueue) IN
       /\ rafQueue' = requestAnimationFrame(Tail(rafQueue), i)
       /\ inst' = [inst EXCEPT ![i] = animateObjects(@, now)]
       /\ loop' = [loop EXCEPT ![i].time = now, ![i].frames = @ + 1,
                               ![i].rendered = render(context[i], @),
                               ![i].steps = animateSteps(inst[i]),
                               ![i].failed = @ \/ context[i] = "lost"]
  /\ UNCHANGED <<now, window, names, phase, mountRef, container, context,
                 listeners, errors>>

RECURSIVE dispatchResize(_, _, _)
\* every registered listener runs, in order of registration
dispatchResize(objs, ls, win) ==
  IF ls = << >> THEN objs
  ELSE dispatchResize([objs EXCEPT ![Head(ls)] = onResize(@, win)], Tail(ls), win)

\* the viewport takes the size (w, h) and window dispatches 'resize'
Resize(w, h) ==
  /\ window' = [window EXCEPT !.innerWidth = w, !.innerHeight = h]
  /\ inst' = dispatchResize(inst, listeners, window')
  /\ loop' = [i \in Instances |->
               IF \E k \in 1..Len(listeners) : listeners[k] = i
               THEN [loop[i] EXCEPT !.resized = TRUE] ELSE loop[i]]
  /\ UNCHANGED <<now, names, phase, mountRef, container, context, rafQueue,
                 listeners, errors>>

\* Node.removeChild: the error it throws, or "none"
removeChildError(ref, children, child) ==
  IF ref = "null" THEN "TypeError"
  ELSE IF \A k \in 1..Len(children) : children[k] # child THEN "NotFoundError"
  ELSE "none"

\* the children left by Node.removeChild
removeChild(children, child) == SelectSeq(children, LAMBDA c : c # child)

\* The host unmounts instance i, or calls its cleanup again.  At the unmount
\* the ref is cleared before the cleanup runs (cleared) or is still set,
\* depending on the host's version.  The cleanup:
\* mountRef.current.removeChild(renderer.domElement)
Cleanup(i, cleared) ==
  /\ phase[i] # "absent"
  /\ cleared => phase[i] = "mounted"
  /\ phase' = [phase EXCEPT ![i] = "unmounted"]
  /\ mountRef' = [mountRef EXCEPT ![i] = IF cleared THEN "null" ELSE @]
  /\ LET err == removeChildError(mountRef'[i], container[i], i) IN
       IF err = "none"
       THEN /\ container' = [container EXCEPT ![i] = removeChild(@, i)]
            /\ errors' = errors
       ELSE /\ container' = container
            /\ errors' = errors \cup { <<i, err>> }
  /\ UNCHANGED <<now, window, names, inst, loop, context, rafQueue, listeners>>

Next ==
  \/ AdvanceClock
  \/ \E i \in Instances : Mount(i)
  \/ Tick
  \/ \E s \in Sizes : Resize(s[1], s[2])
  \/ \E i \in Instances, cleared \in BOOLEAN : Cleanup(i, cleared)

Spec == Init /\ [][Next]_vars

\* the browser drops the WebGL context of a renderer ('webglcontextlost')
LoseContext(i) ==
  /\ phase[i] # "absent"
  /\ context[i] = "ok"
  /\ context' = [context EXCEPT ![i] = "lost"]
  /\ UNCHANGED <<now, window, names, phase, mountRef, container, inst, loop,
                 rafQueue, listeners, errors>>

NextFaults ==
  \/ Next
  \/ \E i \in Instances : LoseContext(i)

SpecFaults == Init /\ [][NextFaults]_vars

RECURSIVE dragsOf(_, _)
\* pointer drags on the canvases of the instances 1..n so far
dragsOf(lp, n) == IF n = 0 THEN 0 ELSE lp[n].drags + dragsOf(lp, n - 1)

\* the user drags vertically on the canvas of instance i, while it is in the page
Drag(i, angle) ==
  /\ phase[i] # "absent"
  /\ \E k \in DOMAIN container[i] : container[i][k] = i
  /\ dragsOf(loop, MaxMounts) < MaxDrags
  /\ inst' = [inst EXCEPT ![i] = handleMouseMoveRotate(@, angle)]
  /\ loop' = [loop EXCEPT ![i].drags = @ + 1]
  /\ UNCHANGED <<now, window, names, phase, mountRef, container, context,
                 rafQueue, listeners, errors>>

\* the loop under pointer input; the clock and the viewport, which the
\* controls do not read, stay as they are
NextInput ==
  \/ \E i \in Instances : Mount(i)
  \/ Tick
  \/ \E i \in Instances, a \in DragAngles : Drag(i, a)
  \/ \E i \in Instances, cleared \in BOOLEAN : Cleanup(i, cleared)

SpecInput == Init /\ [][NextInput]_vars

SpecRegistry == InitRegistry /\ [][Next]_vars

(* ---------------------------- properties ------------------------------- *)
Built(i) == phase[i] # "absent"

Elapsed(i) == loop[i].time - loop[i].start

Scheduled(i) == \E k \in 1..Len(rafQueue) : rafQueue[k] = i

Listening(i) == \E k \in 1..Len(listeners) : listeners[k] = i

\* C1: once an instance is unmounted, no step changes the sun's rotation or
\* any planet's position or rotation of that instance.
C1_NoWriteAfterUnmount ==
  [][\A i \in Instances :
       (phase[i] = "unmounted" /\ phase'[i] = "unmounted") =>
         /\ inst'[i].sun.rotationY = inst[i].sun.rotationY
         /\ \A k \in DOMAIN inst[i].planets :
              /\ inst'[i].planets[k].mesh.position = inst[i].planets[k].mesh.position
              /\ inst'[i].planets[k].mesh.rotationY = inst[i].planets[k].mesh.rotationY]_vars

\* C2: no call of the cleanup raises an error, at whatever time after mount
\* it runs, a second call and a call with the ref cleared included.
C2_CleanupNeverThrows == errors = {}

\* C3: an unmounted instance has no frame callback scheduled.
C3_StoppedHasNoCallback ==
  \A i \in Instances : phase[i] = "unmounted" => ~Scheduled(i)

\* C4: the registered resize listeners are exactly those of the mounted
\* instances, one each.
C4_ListenersAreMounted ==
  /\ Len(listeners) = Cardinality({i \in Instances : phase[i] = "mounted"})
  /\ \A i \in Instances : Listening(i) => phase[i] = "mounted"

\* the position the claim C5 gives a body of orbit radius d and orbit
\* divisor k after e milliseconds
PositionAt(d, k, e) ==
  [x |-> TimesCos(d, OrbitAngle(e, k)), y |-> Const(0), z |-> TimesSin(d, OrbitAngle(e, k))]

\* C5: each body's position is the one of the time elapsed since the loop
\* started, (orbitRadius, 0, 0) at elapsed 0, and two loops with equal
\* elapsed times have equal positions.
C5_PositionFromElapsed ==
  /\ \A i \in Instances : Built(i) =>
       \A k \in DOMAIN inst[i].planets :
         inst[i].planets[k].mesh.position =
           PositionAt(inst[i].planets[k].distance, inst[i].planets[k].orbitSpeed, Elapsed(i))
  /\ \A i, j \in Instances : (Built(i) /\ Built(j) /\ Elapsed(i) = Elapsed(j)) =>
       \A k \in DOMAIN inst[i].planets :
         inst[i].planets[k].mesh.position = inst[j].planets[k].mesh.position

\* C6: each body's self-rotation is elapsed * rotationRate (in hundredths of
\* a radian: elapsed / TimeDivisor * rotationSpeed), the sun's likewise, and
\* two loops with equal elapsed times have equal self-rotations.
C6_RotationFromElapsed ==
  /\ \A i \in Instances : Built(i) =>
       /\ inst[i].sun.rotationY * TimeDivisor = Elapsed(i)
       /\ \A k \in DOMAIN inst[i].planets :
            inst[i].planets[k].mesh.rotationY * TimeDivisor =
              Elapsed(i) * inst[i].planets[k].rotationSpeed
  /\ \A i, j \in Instances : (Built(i) /\ Built(j) /\ Elapsed(i) = Elapsed(j)) =>
       /\ inst[i].sun.rotationY = inst[j].sun.rotationY
       /\ \A k \in DOMAIN inst[i].planets :
            inst[i].planets[k].mesh.rotationY = inst[j].planets[k].mesh.rotationY

\* C7: a resize event to (w, h) sets every listening instance's camera aspect
\* to w / h and its render surface to (w, h) (the canvas to that size times
\* the pixel ratio) and leaves the camera position alone; running the
\* listener a second time for the same size changes nothing; the event is
\* enabled in every state.
C7_ResizeSetsAspectAndSize ==
  /\ [][\A s \in Sizes : Resize(s[1], s[2]) =>
          \A i \in Instances : Listening(i) =>
            /\ inst'[i].camera.aspect[1] * s[2] = inst'[i].camera.aspect[2] * s[1]
            /\ inst'[i].renderer.width = s[1]
            /\ inst'[i].renderer.height = s[2]
            /\ inst'[i].renderer.canvasWidth = s[1] * inst[i].renderer.pixelRatio
            /\ inst'[i].renderer.canvasHeight = s[2] * inst[i].renderer.pixelRatio
            /\ inst'[i].camera.position = inst[i].camera.position]_vars
  /\ [](\A i \in Instances : Built(i) =>
          \A s \in Sizes :
            LET win == [window EXCEPT !.innerWidth = s[1], !.innerHeight = s[2]] IN
            onResize(onResize(inst[i], win), win) = onResize(inst[i], win))
  /\ [](\A s \in Sizes : ENABLED Resize(s[1], s[2]))

C7_Witness ==
  \E i \in Instances :
    /\ phase[i] = "mounted" /\ loop[i].resized /\ loop[i].frames >= 2
    /\ window.innerWidth = 1920 /\ window.innerHeight = 1080
    /\ inst[i].camera.aspect = <<16, 9>>
    /\ inst[i].renderer.width = 1920 /\ inst[i].renderer.height = 1080

\* the planets of o that carry a ring, with the place of the ring among the
\* planet's children
Rings(o) ==
  { kc \in (DOMAIN o.planets) \X (1..3) :
      /\ kc[2] \in DOMAIN o.planets[kc[1]].mesh.children
      /\ o.planets[kc[1]].mesh.children[kc[2]].kind = "ring" }

Labels(o) ==
  { kc \in (DOMAIN o.planets) \X (1..3) :
      /\ kc[2] \in DOMAIN o.planets[kc[1]].mesh.children
      /\ o.planets[kc[1]].mesh.children[kc[2]].kind = "label" }

\* C8: in every state after build there is exactly one ring, on a planet
\* named 'Saturn', when the names hold 'Saturn', and no ring when they do not.
C8_OneRingOnSaturn ==
  \A i \in Instances : Built(i) =>
    IF \E k \in DOMAIN names : names[k] = RingedBody
    THEN /\ Cardinality(Rings(inst[i])) = 1
         /\ \A kc \in Rings(inst[i]) :
              /\ names[kc[1]] = RingedBody
              /\ inst[i].planets[kc[1]].mesh.children[1].text = RingedBody
    ELSE Rings(inst[i]) = {}

C8_Witness ==
  \E i \in Instances :
    /\ loop[i].frames >= 2 /\ loop[i].resized
    /\ names = planetNames
    /\ Rings(inst[i]) = { <<6, 2>> }

\* a built instance of a registry without 'Saturn' has no ring
C8_WitnessNoRing ==
  \E i \in Instances :
    /\ loop[i].frames >= 2
    /\ \A k \in DOMAIN names : names[k] # RingedBody
    /\ Rings(inst[i]) = {}

\* body meshes, labels, orbit-path guides, central body and rings of o
ObjectCount(o) ==
  Cardinality({k \in DOMAIN o.scene : o.scene[k][1] \in {"planet", "orbit", "sun"}})
  + Cardinality(Labels(o)) + Cardinality(Rings(o))

\* C9 as stated: the count is 2 * numberOfBodies + 1 + 1 + (0 or 1).
C9_CountAsStated ==
  \A i \in Instances : Built(i) =>
    ObjectCount(inst[i]) - (2 * Len(names) + 1 + 1) \in {0, 1}

\* C9 amended: in every state after mount the count is
\* 3 * numberOfBodies + 1 + (0 or 1): a mesh, a label and an orbit-path guide
\* for each body, the central body, and the ring.
C9_CountThreePerBody ==
  \A i \in Instances : Built(i) =>
    /\ Cardinality(Rings(inst[i])) \in {0, 1}
    /\ ObjectCount(inst[i]) = 3 * Len(names) + 1 + Cardinality(Rings(inst[i]))

C9_Witness ==
  \E i \in Instances :
    /\ loop[i].frames >= 2 /\ loop[i].resized
    /\ Len(names) = 8
    /\ ObjectCount(inst[i]) = 26

\* the objects of o and their parents, without their transforms
Structure(o) ==
  [scene |-> o.scene,
   children |-> [k \in DOMAIN o.planets |->
                   [c \in DOMAIN o.planets[k].mesh.children |->
                      o.planets[k].mesh.children[c].kind]],
   orbits |-> o.orbits]

\* C10: in every state after build the planet meshes are those of the
\* registry in its order, the k-th with the k-th name, texture, distance and
\* rates, and the scene objects are those of the build.
C10_BodiesAreRegistry ==
  \A i \in Instances : Built(i) =>
    /\ Len(inst[i].planets) = Len(names)
    /\ SelectSeq(inst[i].scene, LAMBDA e : e[1] = "planet")
         = [k \in 1..Len(names) |-> <<"planet", k>>]
    /\ \A k \in 1..Len(names) :
         /\ inst[i].planets[k].mesh.children[1].text = names[k]
         /\ inst[i].planets[k].mesh.texture = planetTextures[k]
         /\ inst[i].planets[k].distance = planetDistances[k]
         /\ inst[i].planets[k].rotationSpeed = k
         /\ inst[i].planets[k].orbitSpeed = k
    /\ Structure(inst[i]) = Structure(build(names, window))

C10_Witness ==
  \E i \in Instances :
    /\ loop[i].frames >= 2 /\ loop[i].resized
    /\ inst[i].planets[3].mesh.children[1].text = "Earth"
    /\ inst[i].planets[3].distance = 40
    /\ Len(inst[i].scene) = 19

\* C12: once a render of an instance has met a lost context, no frame
\* callback of that instance is scheduled and the error has been reported.
C12_LoopStopsOnLostContext ==
  \A i \in Instances : loop[i].failed =>
    /\ ~Scheduled(i)
    /\ \E e \in errors : e[1] = i

\* C13: from one state to the next no body's self-rotation (nor the sun's)
\* decreases, and a body of rotationSpeed 0 keeps its angle through an update.
C13_RotationNeverDecreases ==
  /\ [][\A i \in Instances : (Built(i) /\ phase'[i] # "absent") =>
          /\ inst'[i].sun.rotationY >= inst[i].sun.rotationY
          /\ \A k \in DOMAIN inst[i].planets :
               /\ inst[i].planets[k].rotationSpeed > 0 =>
                    inst'[i].planets[k].mesh.rotationY >= inst[i].planets[k].mesh.rotationY
               /\ inst[i].planets[k].rotationSpeed = 0 =>
                    inst'[i].planets[k].mesh.rotationY = inst[i].planets[k].mesh.rotationY]_vars
  /\ [](\A i \in Instances : Built(i) =>
          \A k \in DOMAIN inst[i].planets :
            updatePlanet([inst[i].planets[k] EXCEPT !.rotationSpeed = 0], now).mesh.rotationY
              = inst[i].planets[k].mesh.rotationY)

C13_Witness ==
  \E i \in Instances :
    /\ loop[i].frames >= 2
    /\ inst[i].planets[3].mesh.rotationY = 2 * inst[i].planets[3].rotationSpeed
    /\ inst[i].sun.rotationY = 2

\* the places of a statement in the steps of an animate() call
Places(steps, name) == {p \in DOMAIN steps : steps[p][1] = name}

\* every statement named a comes before every statement named b
Before(steps, a, b) ==
  \A p \in Places(steps, a), q \in Places(steps, b) : p < q

\* C15: in every tick the clock is read once, before the central body and
\* every body is updated; then the camera update runs; then one frame is
\* drawn, after all bodies.
C15_TickOrder ==
  \A i \in Instances : Built(i) =>
    LET steps == loop[i].steps IN
    /\ Cardinality(Places(steps, "Date.now")) = 1
    /\ Cardinality(Places(steps, "sun.rotation")) = 1
    /\ Cardinality(Places(steps, "planet")) = Len(inst[i].planets)
    /\ Cardinality(Places(steps, "controls.update")) = 1
    /\ Cardinality(Places(steps, "renderer.render")) = 1
    /\ Before(steps, "Date.now", "sun.rotation")
    /\ Before(steps, "Date.now", "planet")
    /\ Before(steps, "sun.rotation", "controls.update")
    /\ Before(steps, "planet", "controls.update")
    /\ Before(steps, "controls.update", "renderer.render")

\* the pending callbacks of instance i
Pending(i) == {p \in DOMAIN rafQueue : rafQueue[p] = i}

\* C16: every instance whose effect has run has exactly one frame callback
\* pending, every other instance none, and an animate() call registers one.
C16_OneCallbackPending ==
  \A i \in Instances :
    /\ Cardinality(Pending(i)) = IF Built(i) THEN 1 ELSE 0
    /\ Built(i) => Cardinality(Places(loop[i].steps, "requestAnimationFrame")) = 1

C16_Witness ==
  /\ \A i \in 1..2 : Built(i)
  /\ \E i \in 1..2 : loop[i].frames >= 2
  /\ Len(rafQueue) = 2

\* C17: in every state after build each body has y = 0, the sun is at the
\* origin, each label is at (0, 3, 0), the ring has the geometry and the
\* orientation of its creation and so has every orbit-path guide.
C17_TickWritesTransformsOnly ==
  \A i \in Instances : Built(i) =>
    /\ inst[i].sun.position = <<0, 0, 0>>
    /\ \A k \in DOMAIN inst[i].planets :
         /\ inst[i].planets[k].mesh.position.y = Const(0)
         /\ inst[i].planets[k].mesh.children[1].kind = "label"
         /\ inst[i].planets[k].mesh.children[1].position = <<0, 3, 0>>
    /\ \A kc \in Rings(inst[i]) :
         LET ring == inst[i].planets[kc[1]].mesh.children[kc[2]] IN
         /\ ring.inner = 26 /\ ring.outer = 30
         /\ ring.rotationX = 1 /\ ring.position = <<0, 0, 0>>
    /\ \A k \in DOMAIN inst[i].orbits :
         /\ inst[i].orbits[k].radius = planetDistances[k]
         /\ inst[i].orbits[k].points = 65
         /\ inst[i].orbits[k].plane = "xz"
         /\ inst[i].orbits[k].rotationX = 1

C17_Witness ==
  \E i \in Instances :
    /\ loop[i].frames >= 2
    /\ inst[i].planets[3].mesh.position.x.fn = "cos"
    /\ inst[i].planets[3].mesh.position.z.fn = "sin"
    /\ inst[i].planets[3].mesh.position.y = Const(0)
    /\ Rings(inst[i]) # {}

\* the plane of a guide as placed in the scene
GuidePlane(guide) == rotateX(guide.plane, guide.rotationX)

\* C18: every body's guide, as placed in the scene, is the circle of the
\* body's orbit radius in the plane y = 0, the plane the body moves in.
C18_BodyOnItsGuide ==
  \A i \in Instances : Built(i) =>
    \A k \in DOMAIN inst[i].planets :
      /\ inst[i].planets[k].mesh.position.y = Const(0)
      /\ inst[i].planets[k].mesh.position.x.amp = inst[i].orbits[k].radius
      /\ GuidePlane(inst[i].orbits[k]) = "xz"

\* C14: in every state, so in every frame drawn, the camera's polar angle is
\* within [0, PI / 2], whatever was dragged and however many updates ran.
C14_PolarAngleClamped ==
  \A i \in Instances : Built(i) =>
    /\ inst[i].camera.position.phi >= 0
    /\ inst[i].camera.position.phi <= HalfPi

\* a drag towards the ground has run into the limit and is still pending
\* when later frames are drawn
C14_Witness ==
  \E i \in Instances :
    /\ loop[i].drags >= 1 /\ loop[i].frames >= 2 /\ loop[i].rendered >= 2
    /\ inst[i].camera.position.phi = HalfPi
    /\ inst[i].controls.sphericalDeltaPhi > 0

====
